---- MODULE Spec2Model ----
(***************************************************************************)
(* Model of the image-generation Lambda (src/main.go): process startup     *)
(* (init), and the request handler run by concurrent invocations against   *)
(* a shared object store and a shared wall clock.  The generation service  *)
(* and the object store are the environment: every call to them picks its  *)
(* outcome nondeterministically.                                           *)
(***************************************************************************)
EXTENDS Integers, Sequences, FiniteSets, TLC

(* ------------------------------ bounds -------------------------------- *)
\* largest numberOfImages a modelled request asks for (beside the out-of-range ones)
MaxImages == 2
\* the wall clock runs over instants 0..MaxTick, TicksPerSec instants per second
MaxTick == 2
TicksPerSec == 2

\* Two handler invocations may be in flight in the process at once: the
\* claims about several requests all speak of a pair of them.
Invocations == {"inv1", "inv2"}

(* ------------------------- program constants -------------------------- *)
Int32Max == 2147483647
Int32Min == (-Int32Max) - 1
StatusOK == 200
StatusBadRequest == 400
StatusInternalServerError == 500

DefaultRegion == "us-east-1"
ModelName == "imagen-4.0-generate-preview-06-06"

(* --------------------------- input universes -------------------------- *)
\* An optional JSON member / environment variable: <<>> absent, <<v>> present.
None == <<>>
Some(v) == <<v>>
Opt(S) == {None} \cup {Some(v) : v \in S}

\* os.Getenv returns "" for an unset variable.  The two required variables
\* are set or unset independently; the two optional ones are both set or both
\* unset.
EnvValues == {e \in [OUTPUT_BUCKET : {"", "bkt"},
                     OUTPUT_FOLDER : {"", "out"},
                     OUTPUT_BUCKET_REGION : {"", "eu-west-1"},
                     API_KEY : {"", "secret"}] :
                (e.OUTPUT_FOLDER = "") <=> (e.OUTPUT_BUCKET_REGION = "")}

\* A JSON number token: its text, and its value hi * 2^31 + lo with
\* 0 <= lo < 2^31 (two limbs: the values just outside int32 must be inputs)
JNum(n) == [lit |-> ToString(n),
            hi |-> IF n >= 0 THEN 0 ELSE -1,
            lo |-> IF n >= 0 THEN n ELSE (n + Int32Max) + 1]
BelowInt32 == [lit |-> "-2147483649", hi |-> -2, lo |-> Int32Max]

NoOptions == [aspectRatio |-> None, personGeneration |-> None]
BothOptions == [aspectRatio |-> Some("PORTRAIT"),
                personGeneration |-> Some("ALLOW_ADULT")]

\* a JSON object with the members given (None: the member is absent)
Object(p, n, o) ==
    [syntaxOK |-> TRUE, prompt |-> p, numberOfImages |-> n,
     aspectRatio |-> o.aspectRatio, personGeneration |-> o.personGeneration]

\* a body that is not JSON
NotJSON == [syntaxOK |-> FALSE, prompt |-> None, numberOfImages |-> None,
            aspectRatio |-> None, personGeneration |-> None]

\* The request bodies the clients send, in two mixes.  "mixed": bad and good
\* requests, for the default one image or for MaxImages images, without the
\* optional parameters.
\* "counts": good prompts with every kind of numberOfImages that yields one
\* image or none, with and without the optional parameters.
Bodies(mix) ==
    IF mix = "mixed"
    THEN {NotJSON}
         \cup {Object(p, n, NoOptions) :
                 p \in Opt({"", "A cat"}),
                 n \in {None, Some(BelowInt32), Some(JNum(MaxImages))}}
    ELSE {Object(Some("A cat"), n, o) :
            n \in {None, Some(BelowInt32)} \cup {Some(JNum(k)) : k \in -1..1},
            o \in {NoOptions, BothOptions}}

\* error texts the generation service / the object store may fail with
ErrTexts == {"quota exceeded", "access denied"}

\* The images the generation service may return: an answer of m images is
\* one of two series, so that two answers may agree or differ, and the images
\* of one answer all differ.
Series == {"pngA", "pngB"}
ImagesOf(series, m) == [j \in 1..m |-> series \o ToString(j)]

Min(a, b) == IF a < b THEN a ELSE b

(* ------------------------------- state -------------------------------- *)
VARIABLES
    traffic,      \* the mix of requests the clients send: "mixed" | "counts"
    phase,        \* "boot" | "running" | "aborted" (log.Fatalf)
    osEnv,        \* the process environment
    fatal,        \* the log.Fatalf message that ended init(), or ""
    s3Client, genaiClient, bucketName, folderPrefix, region,   \* package vars
    now,          \* the wall clock, in instants
    store,        \* the bucket: object key -> object body
    pc,           \* per invocation: "idle" | "gen" | "loop" | "put" | "done"
    req,          \* per invocation: the request body
    in,           \* per invocation: the decoded, defaulted requestPayload
    genCfg,       \* per invocation: the GenerateImagesConfig
    genLog,       \* per invocation, history: the GenerateImages calls made
    images,       \* per invocation: genResp.GeneratedImages
    idx,          \* per invocation: the loop index
    key,          \* per invocation: the key computed for the current image
    urls,         \* per invocation: the urls slice
    putLog,       \* per invocation, history: the PutObject calls made
    resp,         \* per invocation: the APIGatewayProxyResponse returned
    logs          \* per invocation: the lines written with log.Printf

procVars == <<phase, osEnv, fatal, s3Client, genaiClient, bucketName, folderPrefix, region>>
reqVars == <<pc, req, in, genCfg, genLog, images, idx, key, urls, putLog, resp, logs>>
vars == <<traffic, procVars, now, store, reqVars>>

(* ------------------------- pure functions ----------------------------- *)
ZeroPayload == [NumberOfImages |-> 0, AspectRatio |-> "",
                PersonGeneration |-> "", Prompt |-> ""]
ZeroCfg == [NumberOfImages |-> 0, AspectRatio |-> "", PersonGeneration |-> ""]
NoResponse == [StatusCode |-> 0, ContentType |-> "", Body |-> "", ImageURLs |-> <<>>]
NoBody == NotJSON

OrZero(o, zero) == IF o = None THEN zero ELSE o[1]

\* a number token fits int32 iff Int32Min <= value <= Int32Max
InInt32(j) == j.hi \in {-1, 0}
AsInt32(j) == IF j.hi = 0 THEN j.lo ELSE (j.lo - Int32Max) - 1

\* json.Unmarshal into a zero requestPayload: an absent member leaves the
\* zero value; a number that does not fit int32 is an UnmarshalTypeError.
Unmarshal(b) ==
    IF ~b.syntaxOK
    THEN [err |-> "invalid character 'x' looking for beginning of value",
          val |-> ZeroPayload]
    ELSE LET n == OrZero(b.numberOfImages, JNum(0))
             v == [NumberOfImages |-> IF InInt32(n) THEN AsInt32(n) ELSE 0,
                   AspectRatio |-> OrZero(b.aspectRatio, ""),
                   PersonGeneration |-> OrZero(b.personGeneration, ""),
                   Prompt |-> OrZero(b.prompt, "")]
         IN IF InInt32(n)
            THEN [err |-> "", val |-> v]
            ELSE [err |-> "json: cannot unmarshal number " \o n.lit
                          \o " into Go struct field requestPayload.numberOfImages of type int32",
                  val |-> v]

\* variant: only a negative count is replaced
ApplyDefaultsNegativeOnly(p) ==
    [p EXCEPT !.NumberOfImages = IF p.NumberOfImages < 0 THEN 1 ELSE p.NumberOfImages,
              !.AspectRatio = IF p.AspectRatio = "" THEN "SQUARE" ELSE p.AspectRatio]

\* the defaults of the handler's step 1
ApplyDefaults(p) ==
    [p EXCEPT !.NumberOfImages = IF p.NumberOfImages <= 0 THEN 1 ELSE p.NumberOfImages,
              !.AspectRatio = IF p.AspectRatio = "" THEN "SQUARE" ELSE p.AspectRatio]

\* genCfg; PersonGeneration stays the zero value unless the request sets it
BuildGenCfg(p) ==
    [NumberOfImages |-> p.NumberOfImages,
     AspectRatio |-> p.AspectRatio,
     PersonGeneration |-> IF p.PersonGeneration # "" THEN p.PersonGeneration ELSE ""]

clientError(status, msg) ==
    [StatusCode |-> status, ContentType |-> "text/plain", Body |-> msg,
     ImageURLs |-> <<>>]

\* variant: the message is dropped
serverErrorNoMessage(msg) ==
    [StatusCode |-> StatusInternalServerError, ContentType |-> "text/plain",
     Body |-> "", ImageURLs |-> <<>>]

serverError(msg) ==
    [StatusCode |-> StatusInternalServerError, ContentType |-> "text/plain",
     Body |-> msg, ImageURLs |-> <<>>]

\* the responsePayload the handler marshals, and json.Marshal of it: a nil
\* slice is encoded as null, a non-nil one as an array of quoted strings
RECURSIVE JoinQuoted(_)
JoinQuoted(us) ==
    IF us = <<>> THEN ""
    ELSE IF Len(us) = 1 THEN "\"" \o us[1] \o "\""
    ELSE "\"" \o us[1] \o "\"," \o JoinQuoted(Tail(us))

Marshal(us) ==
    IF us = <<>> THEN "{\"imageUrls\":null}"
    ELSE "{\"imageUrls\":[" \o JoinQuoted(us) \o "]}"

\* the 200 response of step 4; ImageURLs is the payload that Body encodes
okResponse(us) ==
    [StatusCode |-> StatusOK, ContentType |-> "application/json",
     Body |-> Marshal(us), ImageURLs |-> us]

\* time.Now().Format("20060102T150405"): the instant cut to its second.  The
\* clock starts at 2025-08-05 12:34:00 and runs for less than a minute.
SecondOf(t) == t \div TicksPerSec
Pad2(n) == IF n < 10 THEN "0" \o ToString(n) ELSE ToString(n)
Format(t) == "20250805T1234" \o Pad2(SecondOf(t))

\* variant: the index is left out of the name
FileNameWithoutIndex(i, t) == "imagen_" \o Format(t) \o ".png"

\* fmt.Sprintf("imagen_%d_%s.png", idx, ...)
FileName(i, t) == "imagen_" \o ToString(i) \o "_" \o Format(t) \o ".png"

\* path.Join(folderPrefix, file): an empty element is ignored (the prefixes
\* of EnvValues are clean paths, which path.Clean leaves as they are)
PathJoin(dir, file) == IF dir = "" THEN file ELSE dir \o "/" \o file

ObjectKey(dir, i, t) == PathJoin(dir, FileName(i, t))

\* variant: the default region whatever the configured one
PublicURLDefaultRegion(bucket, reg, k) ==
    "https://" \o bucket \o ".s3." \o DefaultRegion \o ".amazonaws.com/" \o k

PublicURL(bucket, reg, k) ==
    "https://" \o bucket \o ".s3." \o reg \o ".amazonaws.com/" \o k

(* ------------------------------ startup ------------------------------- *)
InitProcess ==
    /\ phase = "boot"
    /\ osEnv \in EnvValues
    /\ fatal = ""
    /\ s3Client = None /\ genaiClient = None
    /\ bucketName = "" /\ folderPrefix = "" /\ region = ""
    /\ now = 0
    /\ store = <<>>
    /\ pc = [r \in Invocations |-> "idle"]
    /\ req = [r \in Invocations |-> NoBody]
    /\ in = [r \in Invocations |-> ZeroPayload]
    /\ genCfg = [r \in Invocations |-> ZeroCfg]
    /\ genLog = [r \in Invocations |-> <<>>]
    /\ images = [r \in Invocations |-> <<>>]
    /\ idx = [r \in Invocations |-> 0]
    /\ key = [r \in Invocations |-> ""]
    /\ urls = [r \in Invocations |-> <<>>]
    /\ putLog = [r \in Invocations |-> <<>>]
    /\ resp = [r \in Invocations |-> NoResponse]
    /\ logs = [r \in Invocations |-> <<>>]

Init == traffic = "mixed" /\ InitProcess
InitCounts == traffic = "counts" /\ InitProcess

\* the region init() hands to the AWS SDK
StartupRegion(e) ==
    IF e.OUTPUT_BUCKET_REGION = "" THEN DefaultRegion ELSE e.OUTPUT_BUCKET_REGION

\* variant: the API key is not looked at
FatalOfKeyUnchecked(e, awsErr, genaiErr) ==
    IF awsErr THEN "unable to load AWS SDK config"
    ELSE IF e.OUTPUT_BUCKET = "" THEN "OUTPUT_BUCKET must be set"
    ELSE IF genaiErr THEN "failed to create GenAI client"
    ELSE ""

\* the log.Fatalf that ends init(), "" when init() reaches its end
FatalOf(e, awsErr, genaiErr) ==
    IF awsErr THEN "unable to load AWS SDK config"
    ELSE IF e.OUTPUT_BUCKET = "" THEN "OUTPUT_BUCKET must be set"
    ELSE IF e.API_KEY = "" THEN "API_KEY must be set"
    ELSE IF genaiErr THEN "failed to create GenAI client"
    ELSE ""

\* init(): the assignments made before the log.Fatalf that fires stay made,
\* but the process is gone; otherwise main() serves requests (lambda.Start).
\* Loading the AWS configuration and creating the GenAI client may fail.
init ==
    /\ phase = "boot"
    /\ \E awsErr \in BOOLEAN, genaiErr \in BOOLEAN :
         LET f == FatalOf(osEnv, awsErr, genaiErr) IN
         /\ fatal' = f
         /\ region' = StartupRegion(osEnv)
         /\ s3Client' = IF awsErr THEN None ELSE Some([Region |-> region'])
         /\ bucketName' = IF awsErr THEN "" ELSE osEnv.OUTPUT_BUCKET
         /\ folderPrefix' = IF awsErr \/ osEnv.OUTPUT_BUCKET = "" THEN ""
                            ELSE osEnv.OUTPUT_FOLDER
         /\ genaiClient' = IF f = "" THEN Some([APIKey |-> osEnv.API_KEY]) ELSE None
         /\ phase' = IF f = "" THEN "running" ELSE "aborted"
    /\ UNCHANGED <<traffic, osEnv, now, store, reqVars>>

\* the wall clock advances
Tick ==
    /\ now < MaxTick
    /\ now' = now + 1
    /\ UNCHANGED <<traffic, procVars, store, reqVars>>

(* ------------------------------ handler ------------------------------- *)
\* return a response: the invocation is over
Return(r, response) ==
    /\ resp' = [resp EXCEPT ![r] = response]
    /\ pc' = [pc EXCEPT ![r] = "done"]

\* variant: the prompt is never found missing
PromptNeverMissing(p) == FALSE

\* the validation of step 1
PromptMissing(p) == p.Prompt = ""

\* step 1: decode, validate, default; build genCfg
Receive(r) ==
    /\ phase = "running"
    /\ pc[r] = "idle"
    /\ \E b \in Bodies(traffic) :
         LET u == Unmarshal(b)
             p == ApplyDefaults(u.val)
         IN /\ req' = [req EXCEPT ![r] = b]
            /\ IF u.err # ""
               THEN /\ Return(r, clientError(StatusBadRequest, "invalid JSON: " \o u.err))
                    /\ UNCHANGED <<in, genCfg>>
               ELSE IF PromptMissing(u.val)
               THEN /\ Return(r, clientError(StatusBadRequest, "prompt is required"))
                    /\ in' = [in EXCEPT ![r] = u.val]
                    /\ UNCHANGED genCfg
               ELSE /\ in' = [in EXCEPT ![r] = p]
                    /\ genCfg' = [genCfg EXCEPT ![r] = BuildGenCfg(p)]
                    /\ pc' = [pc EXCEPT ![r] = "gen"]
                    /\ UNCHANGED resp
    /\ UNCHANGED <<traffic, procVars, now, store, genLog, images, idx, key, urls,
                   putLog, logs>>

\* what the generation service may answer to a call asking for n images
GenOutcomes(n) ==
    {[err |-> e, imgs |-> <<>>] : e \in ErrTexts}
    \cup {[err |-> "", imgs |-> ImagesOf(s, m)] :
            s \in Series, m \in 0..Min(n, MaxImages)}

\* variant: the failed call is logged but the handler goes on as if the
\* service had returned no image
GenFailedFallsThrough(r, e) ==
    /\ logs' = [logs EXCEPT ![r] = Append(@, "GenAI error: " \o e)]
    /\ images' = [images EXCEPT ![r] = <<>>]
    /\ idx' = [idx EXCEPT ![r] = 0]
    /\ pc' = [pc EXCEPT ![r] = "loop"]
    /\ UNCHANGED resp

\* the generation call failed: log it, answer 500
GenFailed(r, e) ==
    /\ logs' = [logs EXCEPT ![r] = Append(@, "GenAI error: " \o e)]
    /\ Return(r, serverError("image generation failed: " \o e))
    /\ UNCHANGED <<images, idx>>

\* step 2: the one call to the generation service
GenerateImages(r) ==
    /\ pc[r] = "gen"
    /\ \E o \in GenOutcomes(genCfg[r].NumberOfImages) :
         /\ genLog' = [genLog EXCEPT ![r] =
                Append(@, [model |-> ModelName, prompt |-> in[r].Prompt,
                           cfg |-> genCfg[r], err |-> o.err, imgs |-> o.imgs])]
         /\ IF o.err # ""
            THEN GenFailed(r, o.err)
            ELSE /\ images' = [images EXCEPT ![r] = o.imgs]
                 /\ idx' = [idx EXCEPT ![r] = 0]
                 /\ pc' = [pc EXCEPT ![r] = "loop"]
                 /\ UNCHANGED <<resp, logs>>
    /\ UNCHANGED <<traffic, procVars, now, store, req, in, genCfg, key, urls, putLog>>

\* step 3, loop head: the next image's key, from the clock as it reads now
MakeKey(r) ==
    /\ pc[r] = "loop"
    /\ idx[r] < Len(images[r])
    /\ key' = [key EXCEPT ![r] = ObjectKey(folderPrefix, idx[r], now)]
    /\ putLog' = [putLog EXCEPT ![r] =
           Append(@, [idx |-> idx[r], key |-> key'[r], at |-> now,
                      body |-> images[r][idx[r] + 1], err |-> "pending"])]
    /\ pc' = [pc EXCEPT ![r] = "put"]
    /\ UNCHANGED <<traffic, procVars, now, store, req, in, genCfg, genLog, images,
                   idx, urls, resp, logs>>

\* the bucket after a successful PutObject: the object under k is replaced
StoreAfterPut(s, k, body) == (k :> body) @@ s

\* variant: the new URL is put in front of the earlier ones
PutSucceededPrepends(r) ==
    /\ store' = StoreAfterPut(store, key[r], images[r][idx[r] + 1])
    /\ urls' = [urls EXCEPT ![r] = <<PublicURL(bucketName, region, key[r])>> \o @]
    /\ idx' = [idx EXCEPT ![r] = @ + 1]
    /\ pc' = [pc EXCEPT ![r] = "loop"]
    /\ UNCHANGED <<resp, logs>>

\* the upload succeeded: append the URL, go on with the next image
PutSucceeded(r) ==
    /\ store' = StoreAfterPut(store, key[r], images[r][idx[r] + 1])
    /\ urls' = [urls EXCEPT ![r] = Append(@, PublicURL(bucketName, region, key[r]))]
    /\ idx' = [idx EXCEPT ![r] = @ + 1]
    /\ pc' = [pc EXCEPT ![r] = "loop"]
    /\ UNCHANGED <<resp, logs>>

\* variant: a failed upload removes the objects the request wrote before
PutFailedRollsBack(r, e) ==
    /\ logs' = [logs EXCEPT ![r] =
           Append(@, "S3 upload failed for " \o key[r] \o ": " \o e)]
    /\ Return(r, serverError("failed to upload image: " \o e))
    /\ store' = [k \in DOMAIN store \ {putLog[r][j].key : j \in 1..Len(putLog[r])}
                  |-> store[k]]
    /\ UNCHANGED <<urls, idx>>

\* variant: a failed upload is logged and the loop goes on with the next image
PutFailedContinues(r, e) ==
    /\ logs' = [logs EXCEPT ![r] =
           Append(@, "S3 upload failed for " \o key[r] \o ": " \o e)]
    /\ idx' = [idx EXCEPT ![r] = @ + 1]
    /\ pc' = [pc EXCEPT ![r] = "loop"]
    /\ UNCHANGED <<store, urls, resp>>

\* the upload failed: log it, answer 500, leave the loop
PutFailed(r, e) ==
    /\ logs' = [logs EXCEPT ![r] =
           Append(@, "S3 upload failed for " \o key[r] \o ": " \o e)]
    /\ Return(r, serverError("failed to upload image: " \o e))
    /\ UNCHANGED <<store, urls, idx>>

\* step 3, loop body: the write to the bucket
PutObject(r) ==
    /\ pc[r] = "put"
    /\ \E e \in {""} \cup ErrTexts :
         /\ putLog' = [putLog EXCEPT ![r][Len(putLog[r])].err = e]
         /\ IF e = "" THEN PutSucceeded(r) ELSE PutFailed(r, e)
    /\ UNCHANGED <<traffic, procVars, now, req, in, genCfg, genLog, images, key>>

\* step 4: the loop is over, answer 200 with the URLs
Respond(r) ==
    /\ pc[r] = "loop"
    /\ idx[r] = Len(images[r])
    /\ Return(r, okResponse(urls[r]))
    /\ UNCHANGED <<traffic, procVars, now, store, req, in, genCfg, genLog, images,
                   idx, key, urls, putLog, logs>>

handler(r) ==
    \/ Receive(r)
    \/ GenerateImages(r)
    \/ MakeKey(r)
    \/ PutObject(r)
    \/ Respond(r)

Next ==
    \/ init
    \/ Tick
    \/ \E r \in Invocations : handler(r)

Spec == Init /\ [][Next]_vars
SpecCounts == InitCounts /\ [][Next]_vars

(* ----------------------------- properties ----------------------------- *)
Done(r) == pc[r] = "done"

\* the request decodes and carries a prompt
Valid(b) == Unmarshal(b).err = "" /\ OrZero(b.prompt, "") # ""

\* the number of images a request that decodes asks for, 1 when it names none
EffectiveCount(b) ==
    LET n == AsInt32(OrZero(b.numberOfImages, JNum(0)))
    IN IF n <= 0 THEN 1 ELSE n

GenCalled(r) == genLog[r] # <<>>
GenSucceeded(r) == GenCalled(r) /\ genLog[r][Len(genLog[r])].err = ""
GenError(r) == GenCalled(r) /\ genLog[r][Len(genLog[r])].err # ""
Returned(r) == genLog[r][Len(genLog[r])].imgs

AllUploadsSucceeded(r) == \A j \in 1..Len(putLog[r]) : putLog[r][j].err = ""
UploadFailed(r) ==
    putLog[r] # <<>> /\ putLog[r][Len(putLog[r])].err \notin {"", "pending"}

\* the j-th URL of the response is the URL of the object that holds the j-th
\* image the generation service returned
UrlsFollowImages(r) ==
    \A j \in 1..Len(resp[r].ImageURLs) :
        /\ j <= Len(putLog[r]) /\ j <= Len(Returned(r))
        /\ putLog[r][j].idx = j - 1
        /\ putLog[r][j].body = Returned(r)[j]
        /\ resp[r].ImageURLs[j] = PublicURL(bucketName, region, putLog[r][j].key)

\* C1 as stated: a valid request for k images whose uploads all succeed is
\* answered 200 with exactly k URLs, in generation order (read with the
\* generation call having succeeded).
C1_AsStated ==
    \A r \in Invocations :
        (Done(r) /\ Valid(req[r]) /\ GenSucceeded(r) /\ AllUploadsSucceeded(r))
        => /\ resp[r].StatusCode = StatusOK
           /\ Len(resp[r].ImageURLs) = EffectiveCount(req[r])
           /\ UrlsFollowImages(r)

\* C1 amended: a valid request whose generation call succeeds and whose
\* uploads all succeed is answered 200 with exactly one URL per image the
\* generation service returned (which the handler never compares with the
\* count asked for), the j-th URL being that of the j-th image.
C1_OneUrlPerReturnedImage ==
    \A r \in Invocations :
        (Done(r) /\ Valid(req[r]) /\ GenSucceeded(r) /\ AllUploadsSucceeded(r))
        => /\ resp[r].StatusCode = StatusOK
           /\ Len(resp[r].ImageURLs) = Len(Returned(r))
           /\ UrlsFollowImages(r)

C1_Witness ==
    \E r \in Invocations :
        /\ Done(r) /\ Valid(req[r]) /\ resp[r].StatusCode = StatusOK
        /\ EffectiveCount(req[r]) = 2
        /\ Returned(r) = <<"pngA1", "pngA2">>
        /\ Len(resp[r].ImageURLs) = 2

\* C2 as stated: a request (a JSON object) whose prompt is empty or absent is
\* answered 400 with "prompt is required", and no call goes to the
\* generation service or to the object store.
C2_AsStated ==
    \A r \in Invocations :
        (Done(r) /\ req[r].syntaxOK /\ OrZero(req[r].prompt, "") = "")
        => /\ resp[r].StatusCode = StatusBadRequest
           /\ resp[r].Body = "prompt is required"
           /\ genLog[r] = <<>> /\ putLog[r] = <<>>

\* C2 amended: a request whose prompt is empty or absent is answered 400 and
\* no call goes to the generation service or to the object store; the body
\* is "prompt is required" when the payload decodes, and "invalid JSON: "
\* followed by the decoding error when it does not.
C2_EmptyPromptIs400 ==
    \A r \in Invocations :
        (Done(r) /\ OrZero(req[r].prompt, "") = "")
        => /\ resp[r].StatusCode = StatusBadRequest
           /\ resp[r].ContentType = "text/plain"
           /\ genLog[r] = <<>> /\ putLog[r] = <<>>
           /\ IF Unmarshal(req[r]).err = ""
              THEN resp[r].Body = "prompt is required"
              ELSE resp[r].Body = "invalid JSON: " \o Unmarshal(req[r]).err

C2_Witness ==
    /\ \E r \in Invocations :
        /\ Done(r) /\ req[r] = Object(Some(""), None, NoOptions)
        /\ resp[r].Body = "prompt is required"
    /\ \E r \in Invocations :
        /\ Done(r) /\ req[r] = Object(None, Some(JNum(MaxImages)), NoOptions)
        /\ resp[r].Body = "prompt is required"

\* C4: when the generation call fails the request is answered 500 and has
\* made no write to the object store: no upload was attempted.
C4_GenFailureNoUpload ==
    \A r \in Invocations :
        GenError(r)
        => /\ Done(r)
           /\ resp[r].StatusCode = StatusInternalServerError
           /\ Len(genLog[r]) = 1
           /\ putLog[r] = <<>>
           /\ urls[r] = <<>>

C4_Witness ==
    \E r \in Invocations : GenError(r) /\ Done(r) /\ EffectiveCount(req[r]) = 2

\* C5: when the upload of image i is the first to fail, the objects of images
\* 0..i-1 are in the store when the response is given, no later image is
\* uploaded, the status is 500 and the response lists no URL.
C5_PartialWriteNoRollback ==
    \A r \in Invocations :
        UploadFailed(r)
        => LET n == Len(putLog[r]) IN
           /\ Done(r)
           /\ \A j \in 1..n : putLog[r][j].idx = j - 1
           /\ \A j \in 1..(n - 1) :
                /\ putLog[r][j].err = ""
                /\ putLog[r][j].key \in DOMAIN store
           /\ resp[r].StatusCode = StatusInternalServerError
           /\ resp[r].ImageURLs = <<>>
           /\ resp[r].Body = "failed to upload image: " \o putLog[r][n].err

C5_Witness ==
    \E r \in Invocations :
        /\ UploadFailed(r) /\ Done(r)
        /\ Len(putLog[r]) = 2 /\ Len(images[r]) = 2
        /\ putLog[r][1].key \in DOMAIN store
        /\ store[putLog[r][1].key] = images[r][1]

\* the value of a number token is zero or negative / is one
NonPositive(j) == j.hi < 0 \/ (j.hi = 0 /\ j.lo = 0)
IsOne(j) == j.hi = 0 /\ j.lo = 1

\* two JSON objects that both name a numberOfImages and agree on all the rest
DifferOnlyInCount(b1, b2) ==
    /\ b1.syntaxOK /\ b2.syntaxOK
    /\ b1.numberOfImages # None /\ b2.numberOfImages # None
    /\ b1.prompt = b2.prompt
    /\ b1.aspectRatio = b2.aspectRatio
    /\ b1.personGeneration = b2.personGeneration

\* the environment answered both invocations alike: the same result of the
\* generation call, and the same clock reading and result for each upload
SameEnvironment(r1, r2) ==
    /\ (GenCalled(r1) /\ GenCalled(r2))
         => /\ genLog[r1][1].err = genLog[r2][1].err
            /\ genLog[r1][1].imgs = genLog[r2][1].imgs
    /\ \A j \in 1..Min(Len(putLog[r1]), Len(putLog[r2])) :
         /\ putLog[r1][j].at = putLog[r2][j].at
         /\ putLog[r1][j].err = putLog[r2][j].err

\* both invocations made the same calls and gave the same response
SameBehaviour(r1, r2) ==
    /\ genLog[r1] = genLog[r2]
    /\ putLog[r1] = putLog[r2]
    /\ resp[r1] = resp[r2]

\* C3 as stated: a request with numberOfImages <= 0 behaves as the same
\* request with numberOfImages = 1 under the same environment: same
\* generation configuration, same uploads, same response; it is no error.
C3_AsStated ==
    \A r1, r2 \in Invocations :
        (/\ Done(r1) /\ Done(r2)
         /\ DifferOnlyInCount(req[r1], req[r2])
         /\ NonPositive(req[r1].numberOfImages[1])
         /\ IsOne(req[r2].numberOfImages[1])
         /\ SameEnvironment(r1, r2))
        => /\ SameBehaviour(r1, r2)
           /\ resp[r1].StatusCode # StatusBadRequest

\* C3 amended: the same, for numberOfImages from -2^31 to 0, the values that
\* fit the payload's int32 field (a smaller number is answered 400,
\* "invalid JSON").
C3_NonPositiveInt32IsOne ==
    \A r1, r2 \in Invocations :
        (/\ Done(r1) /\ Done(r2)
         /\ DifferOnlyInCount(req[r1], req[r2])
         /\ NonPositive(req[r1].numberOfImages[1])
         /\ InInt32(req[r1].numberOfImages[1])
         /\ IsOne(req[r2].numberOfImages[1])
         /\ SameEnvironment(r1, r2))
        => /\ SameBehaviour(r1, r2)
           /\ genCfg[r1] = genCfg[r2] /\ genCfg[r1].NumberOfImages = 1
           /\ resp[r1].StatusCode # StatusBadRequest

C3_Witness ==
    /\ Done("inv1") /\ Done("inv2")
    /\ req["inv1"] = Object(Some("A cat"), Some(JNum(0)), BothOptions)
    /\ req["inv2"] = Object(Some("A cat"), Some(JNum(1)), BothOptions)
    /\ SameEnvironment("inv1", "inv2")
    /\ resp["inv1"].StatusCode = StatusOK
    /\ Len(resp["inv1"].ImageURLs) = 1

\* two runs of one request that fail at the same step, alike up to the text
\* of the error
FailedAtSameStep(r1, r2) ==
    /\ req[r1] = req[r2]
    /\ \/ GenError(r1) /\ GenError(r2)
       \/ /\ UploadFailed(r1) /\ UploadFailed(r2)
          /\ genLog[r1] = genLog[r2]
          /\ Len(putLog[r1]) = Len(putLog[r2])
          /\ \A j \in 1..Len(putLog[r1]) :
               /\ putLog[r1][j].key = putLog[r2][j].key
               /\ putLog[r1][j].at = putLog[r2][j].at

\* the text of the error an invocation failed with
FailureText(r) ==
    IF GenError(r) THEN genLog[r][1].err ELSE putLog[r][Len(putLog[r])].err

\* C6 as stated: the response to a failed generation call or upload does not
\* depend on the text of the error: two runs of a request that fail at the
\* same step with different error texts get the same status and body.
C6_AsStated ==
    \A r1, r2 \in Invocations :
        (Done(r1) /\ Done(r2) /\ FailedAtSameStep(r1, r2))
        => /\ resp[r1].StatusCode = resp[r2].StatusCode
           /\ resp[r1].Body = resp[r2].Body

\* C6 amended: the status (500) and the content type of the response to a
\* failed generation call or upload do not depend on the text of the error,
\* but the body does: it is "image generation failed: " or "failed to upload
\* image: " followed by that text, which is also written to the log.
C6_BodyCarriesErrorText ==
    /\ \A r \in Invocations :
         GenError(r)
         => /\ resp[r] = [StatusCode |-> StatusInternalServerError,
                          ContentType |-> "text/plain",
                          Body |-> "image generation failed: " \o genLog[r][1].err,
                          ImageURLs |-> <<>>]
            /\ logs[r] = <<"GenAI error: " \o genLog[r][1].err>>
    /\ \A r \in Invocations :
         UploadFailed(r)
         => LET a == putLog[r][Len(putLog[r])] IN
            /\ resp[r] = [StatusCode |-> StatusInternalServerError,
                          ContentType |-> "text/plain",
                          Body |-> "failed to upload image: " \o a.err,
                          ImageURLs |-> <<>>]
            /\ logs[r] = <<"S3 upload failed for " \o a.key \o ": " \o a.err>>
    /\ \A r1, r2 \in Invocations :
         (Done(r1) /\ Done(r2) /\ FailedAtSameStep(r1, r2))
         => /\ resp[r1].StatusCode = resp[r2].StatusCode
            /\ resp[r1].ContentType = resp[r2].ContentType
            /\ (resp[r1].Body = resp[r2].Body) <=> (FailureText(r1) = FailureText(r2))

C6_Witness ==
    /\ Done("inv1") /\ Done("inv2")
    /\ FailedAtSameStep("inv1", "inv2")
    /\ UploadFailed("inv1")
    /\ FailureText("inv1") # FailureText("inv2")

\* C7: init() ends the process when the bucket name or the API key is not
\* set, so no request is handled without them; an unset region is replaced
\* by "us-east-1" and an unset key prefix is left empty, neither ends the
\* process.
C7_StartupRequiresBucketAndKey ==
    /\ (phase # "boot" /\ (osEnv.OUTPUT_BUCKET = "" \/ osEnv.API_KEY = ""))
         => phase = "aborted"
    /\ \A r \in Invocations :
         pc[r] # "idle"
         => /\ phase = "running"
            /\ bucketName # ""
            /\ genaiClient # None /\ genaiClient[1].APIKey # ""
    /\ phase = "running"
         => /\ bucketName = osEnv.OUTPUT_BUCKET
            /\ folderPrefix = osEnv.OUTPUT_FOLDER
            /\ region = IF osEnv.OUTPUT_BUCKET_REGION = "" THEN "us-east-1"
                        ELSE osEnv.OUTPUT_BUCKET_REGION
            /\ s3Client = Some([Region |-> region])
            /\ genaiClient = Some([APIKey |-> osEnv.API_KEY])
    /\ phase = "aborted"
         => \/ fatal = "OUTPUT_BUCKET must be set" /\ osEnv.OUTPUT_BUCKET = ""
            \/ fatal = "API_KEY must be set" /\ osEnv.API_KEY = ""
            \/ fatal \in {"unable to load AWS SDK config",
                          "failed to create GenAI client"}

C7_Witness ==
    /\ phase = "running"
    /\ osEnv.OUTPUT_BUCKET_REGION = "" /\ osEnv.OUTPUT_FOLDER = ""
    /\ region = "us-east-1"
    /\ \E r \in Invocations : Done(r) /\ resp[r].ImageURLs # <<>>

\* C8: a validated request calls the generation service exactly once and
\* never again; uploads come after that call has returned, one per index, in
\* increasing index order, each started only after the one before succeeded.
C8_OneCallThenSequentialUploads ==
    \A r \in Invocations :
        /\ Len(genLog[r]) <= 1
        /\ (Valid(req[r]) /\ pc[r] \in {"loop", "put", "done"}) => Len(genLog[r]) = 1
        /\ putLog[r] # <<>> => GenSucceeded(r)
        /\ Len(putLog[r]) <= Len(images[r])
        /\ \A j \in 1..Len(putLog[r]) :
             /\ putLog[r][j].idx = j - 1
             /\ j < Len(putLog[r])
                  => /\ putLog[r][j].err = ""
                     /\ putLog[r][j].at <= putLog[r][j + 1].at

C8_Witness ==
    \E r \in Invocations :
        /\ Done(r) /\ Len(putLog[r]) = 2
        /\ putLog[r][1].at < putLog[r][2].at
        /\ putLog[r][2].err = ""

\* an upload of invocation r has just succeeded
PutDone(r) == pc[r] = "put" /\ pc'[r] = "loop"

\* C9: two requests that upload the image of one index within one clock
\* second compute the same key, the later write replaces the object of the
\* earlier one, and both are answered with the same URL; within one request
\* the keys are pairwise distinct.
C9_KeysCollideAcrossRequestsOnly ==
    /\ [](\A r1, r2 \in Invocations :
            \A j1 \in 1..Len(putLog[r1]), j2 \in 1..Len(putLog[r2]) :
                /\ (/\ r1 # r2
                    /\ putLog[r1][j1].idx = putLog[r2][j2].idx
                    /\ SecondOf(putLog[r1][j1].at) = SecondOf(putLog[r2][j2].at))
                   => /\ putLog[r1][j1].key = putLog[r2][j2].key
                      /\ (/\ resp[r1].StatusCode = StatusOK
                          /\ resp[r2].StatusCode = StatusOK)
                         => resp[r1].ImageURLs[j1] = resp[r2].ImageURLs[j2]
                /\ (r1 = r2 /\ j1 # j2)
                   => putLog[r1][j1].key # putLog[r2][j2].key)
    /\ [][\A r \in Invocations :
            PutDone(r)
            => /\ DOMAIN store' = DOMAIN store \cup {key[r]}
               /\ store'[key[r]] = images[r][idx[r] + 1]
               /\ \A k \in DOMAIN store \ {key[r]} : store'[k] = store[k]]_vars

C9_Witness ==
    /\ Done("inv1") /\ Done("inv2")
    /\ resp["inv1"].StatusCode = StatusOK /\ resp["inv2"].StatusCode = StatusOK
    /\ Len(resp["inv1"].ImageURLs) = 2 /\ Len(resp["inv2"].ImageURLs) = 1
    /\ SecondOf(putLog["inv1"][1].at) = SecondOf(putLog["inv2"][1].at)
    /\ putLog["inv1"][1].at # putLog["inv2"][1].at
    /\ resp["inv1"].ImageURLs[1] = resp["inv2"].ImageURLs[1]
    /\ images["inv1"][1] # images["inv2"][1]
    /\ store[putLog["inv1"][1].key] = images["inv2"][1]

\* C10: a 200 response lists as many URLs as the request wrote objects and as
\* the generation service returned images (none included), and the j-th URL
\* is "https://{bucket}.s3.{region}.amazonaws.com/{key}" for the key of the
\* j-th object written.
C10_UrlsAreTheWrittenObjects ==
    \A r \in Invocations :
        (Done(r) /\ resp[r].StatusCode = StatusOK)
        => /\ GenSucceeded(r)
           /\ AllUploadsSucceeded(r)
           /\ Len(resp[r].ImageURLs) = Len(putLog[r])
           /\ Len(resp[r].ImageURLs) = Len(Returned(r))
           /\ resp[r].Body = Marshal(resp[r].ImageURLs)
           /\ \A j \in 1..Len(resp[r].ImageURLs) :
                /\ resp[r].ImageURLs[j] =
                     "https://" \o osEnv.OUTPUT_BUCKET \o ".s3." \o s3Client[1].Region
                     \o ".amazonaws.com/" \o putLog[r][j].key
                /\ putLog[r][j].key \in DOMAIN store

C10_Witness ==
    /\ Done("inv1") /\ Done("inv2")
    /\ resp["inv1"].StatusCode = StatusOK /\ resp["inv2"].StatusCode = StatusOK
    /\ osEnv.OUTPUT_BUCKET_REGION = "eu-west-1"
    /\ Len(resp["inv1"].ImageURLs) = 2
    /\ Returned("inv2") = <<>> /\ putLog["inv2"] = <<>>
    /\ resp["inv2"].Body = "{\"imageUrls\":null}"

====
